---- MODULE Spec2Model ----
(***************************************************************************)
(* Model of the quiz session core in src/app.py: the registry `games`,     *)
(* the HTTP handlers create_game / next_question, the lock_question timer  *)
(* task, and the websocket handler player_ws with its broadcast helpers.   *)
(*                                                                         *)
(* Python objects are modelled as objects: `rooms` is the heap of room     *)
(* dicts ever created (a handler keeps the dict it captured in `game`      *)
(* even after games[pin] is overwritten), `conns` is the heap of WebSocket *)
(* objects, and a player's "ws" field holds a reference into `conns`.      *)
(* A dict that Python iterates in insertion order is a sequence.           *)
(* Every handler is one atomic action; `sent` and `ret` hold what the last *)
(* handler delivered and how it ended.                                     *)
(***************************************************************************)
EXTENDS Integers, Sequences, FiniteSets, TLC

\* ---------------------------------------------------------------- bounds
MaxRooms   == 2     \* create_game calls explored
MaxConns   == 2     \* websocket connections explored
MaxIndex   == 3     \* question_index explored up to this value
MaxAnswers == 2     \* counted answers explored per room
MaxWork    == 5     \* rooms + connections + advances explored in one run
MaxDown    == 1     \* connections explored as gone at the same time

Pins      == {"P1", "P2"}             \* values of str(uuid4())[:6].upper()
PlayerIds == {"HOST", "SCREEN", "p1", "p2"} \* player_id path parameters
Instants  == {0, 10, 20}              \* clock readings explored

\* ------------------------------------------------------ program constants
QUESTION_TIME == 15
BASE_SCORE    == 1000

QUESTIONS ==
    << [options |-> <<"A", "B", "C", "D">>, answer |-> "A"],
       [options |-> <<"A", "B", "C", "D">>, answer |-> "B"] >>

OPTION_COLOR_MAP ==
    ("A" :> "blue") @@ ("B" :> "yellow") @@ ("C" :> "red") @@ ("D" :> "green")

\* {v: k for k, v in OPTION_COLOR_MAP.items()}
COLOR_OPTION_MAP ==
    [c \in {OPTION_COLOR_MAP[k] : k \in DOMAIN OPTION_COLOR_MAP} |->
        CHOOSE k \in DOMAIN OPTION_COLOR_MAP : OPTION_COLOR_MAP[k] = c]

NoWs   == 0      \* p["ws"] is None
NoTime == -1     \* game["question_start"] is None
NoId   == "None" \* dict.get() found nothing

\* ------------------------------------------------------------------ state
VARIABLES
    games,     \* pin -> reference into rooms (0: no such key)
    rooms,     \* heap of room dicts, in creation order
    conns,     \* heap of WebSocket objects with the handler that serves each
    tasks,     \* lock_question tasks sleeping or ready to run
    now,       \* the event loop's clock
    sent,      \* messages delivered by the last handler
    ret,       \* how the last handler ended: its response or its exception
    lock_log   \* <<room, q_index>> for which a lock message was delivered

vars == <<games, rooms, conns, tasks, now, sent, ret, lock_log>>

\* ---------------------------------------------------------------- helpers
Min(S) == CHOOSE x \in S : \A y \in S : x <= y

Range(f) == {f[i] : i \in DOMAIN f}

\* QUESTIONS[i] with Python's indexing: negative i counts from the end
ValidIndex(i) == -Len(QUESTIONS) <= i /\ i < Len(QUESTIONS)

QuestionAt(i) == IF i >= 0 THEN QUESTIONS[i + 1] ELSE QUESTIONS[Len(QUESTIONS) + i + 1]

OptionIds(i) == Range(QuestionAt(i).options)

NewGame ==
    [question_index |-> -1,
     started        |-> FALSE,
     locked         |-> TRUE,
     question_start |-> NoTime,
     players        |-> << >>,
     answered       |-> {},
     answers_count  |-> << >>]

\* position of key pid in game["players"], 0 when absent
PlayerPos(g, pid) ==
    IF \E i \in 1..Len(g.players) : g.players[i].id = pid
    THEN CHOOSE i \in 1..Len(g.players) : g.players[i].id = pid
    ELSE 0

RoleOf(pid) == IF pid \in {"HOST", "SCREEN"} THEN pid ELSE "player"

AllRoles == {"HOST", "SCREEN", "player"}

Msg(type) ==
    [type |-> type, q |-> -1, correct_id |-> NoId, counts |-> << >>,
     data |-> << >>, finished |-> FALSE]

\* ------------------------------------------------------------- broadcasts
\* `for p in game["players"].values(): if <role test> and p["ws"]: await
\* p["ws"].send_json(...)`: the loop delivers in dict order and the first
\* send that raises ends it.
Targets(g, roles) ==
    {i \in 1..Len(g.players) : g.players[i].role \in roles /\ g.players[i].ws # NoWs}

FirstFail(g, cs, roles) ==
    LET bad == {i \in Targets(g, roles) : cs[g.players[i].ws].status # "open"}
    IN  IF bad = {} THEN 0 ELSE Min(bad)

Reached(g, cs, roles) ==
    {i \in Targets(g, roles) : FirstFail(g, cs, roles) = 0 \/ i < FirstFail(g, cs, roles)}

SendOk(g, cs, roles) == FirstFail(g, cs, roles) = 0

Deliveries(g, cs, roles, m) ==
    {[to |-> g.players[i].ws, msg |-> m] : i \in Reached(g, cs, roles)}


\* ------------------------------------------------------------ pure helpers
RECURSIVE SumOver(_, _)
SumOver(f, S) ==
    IF S = {} THEN 0
    ELSE LET x == CHOOSE y \in S : TRUE IN f[x] + SumOver(f, S \ {x})

Total(f) == SumOver(f, DOMAIN f)

\* Score without the max(0, ...) clamp
Score_NoClamp(elapsed) ==
    (BASE_SCORE * (QUESTION_TIME - elapsed)) \div QUESTION_TIME

\* int(BASE_SCORE * (max(0, QUESTION_TIME - elapsed) / QUESTION_TIME)); on the
\* integer clock of this model the float expression equals the integer
\* quotient for every remaining in 0..QUESTION_TIME
Score(elapsed) ==
    LET remaining == IF QUESTION_TIME - elapsed > 0 THEN QUESTION_TIME - elapsed ELSE 0
    IN  (BASE_SCORE * remaining) \div QUESTION_TIME

\* sorted(..., key=score, reverse=True) over the player-role entries: stable,
\* so entries with equal scores keep their dict order
Leaderboard(g) ==
    LET idx  == {i \in 1..Len(g.players) : g.players[i].role = "player"}
        rank(i) == Cardinality({j \in idx :
                       \/ g.players[j].score > g.players[i].score
                       \/ g.players[j].score = g.players[i].score /\ j < i})
    IN  [k \in 1..Cardinality(idx) |->
            LET i == CHOOSE j \in idx : rank(j) = k - 1
            IN  [name |-> g.players[i].id, score |-> g.players[i].score]]

Visible(g) ==
    SelectSeq([i \in 1..Len(g.players) |-> g.players[i].id], LAMBDA id : RoleOf(id) = "player")

\* --------------------------------------------------------- send functions
\* each yields the deliveries made and whether the loop ran to its end
broadcast_players(g, cs) ==
    [sent |-> Deliveries(g, cs, AllRoles, [Msg("players") EXCEPT !.data = Visible(g)]),
     ok   |-> SendOk(g, cs, AllRoles)]

send_answer_stats(g, cs) ==
    [sent |-> Deliveries(g, cs, {"HOST", "SCREEN"},
                         [Msg("stats") EXCEPT !.counts = g.answers_count]),
     ok   |-> SendOk(g, cs, {"HOST", "SCREEN"})]

notify_question_end(g, cs) ==
    [sent |-> Deliveries(g, cs, {"HOST"}, Msg("question_end")),
     ok   |-> SendOk(g, cs, {"HOST"})]

send_leaderboard(g, cs, finished) ==
    LET payload == [Msg("leaderboard") EXCEPT !.finished = finished, !.data = Leaderboard(g)]
        msgOf(i) == IF finished \/ g.players[i].role \in {"HOST", "SCREEN"}
                    THEN payload ELSE Msg("wait")
    IN  [sent |-> {[to |-> g.players[i].ws, msg |-> msgOf(i)] : i \in Reached(g, cs, AllRoles)},
         ok   |-> SendOk(g, cs, AllRoles)]

\* --------------------------------------------------------- exploration
RECURSIVE SumSeq(_, _)
SumSeq(f(_), n) == IF n = 0 THEN 0 ELSE f(n) + SumSeq(f, n - 1)

\* what a run has used of its budget
Work ==
    LET used(r) == rooms[r].question_index + 1
    IN  Len(rooms) + Len(conns) + SumSeq(used, Len(rooms))

\* ------------------------------------------------------------------- Init
Init ==
    /\ games = [p \in Pins |-> 0]
    /\ rooms = << >>
    /\ conns = << >>
    /\ tasks = {}
    /\ now = 0
    /\ sent = {}
    /\ ret = "ok"
    /\ lock_log = {}

\* ------------------------------------------------------------ create_game
create_game(pin) ==
    /\ Len(rooms) < MaxRooms
    /\ Work < MaxWork
    /\ rooms' = Append(rooms, NewGame)
    /\ games' = [games EXCEPT ![pin] = Len(rooms) + 1]
    /\ sent' = {}
    /\ ret' = "ok"
    /\ UNCHANGED <<conns, tasks, now, lock_log>>

\* -------------------------------------------------------------- check_pin
\* the response without the lookup of lines 56-58
check_pin_response_NoLookup(pin) ==
    [valid |-> TRUE, started |-> FALSE]

\* {"valid": False}, or {"valid": True, "started": game["started"]}
check_pin_response(pin) ==
    IF games[pin] = 0
    THEN [valid |-> FALSE, started |-> FALSE]
    ELSE [valid |-> TRUE, started |-> rooms[games[pin]].started]

check_pin(pin) ==
    /\ sent' = {}
    /\ ret' = (LET resp == check_pin_response(pin)
               IN  IF ~resp.valid THEN "invalid"
                   ELSE IF resp.started THEN "valid_started" ELSE "valid")
    /\ UNCHANGED <<games, rooms, conns, tasks, now, lock_log>>

\* ---------------------------------------------------------- next_question
\* OpenQuestion without the new answers_count of line 79
OpenQuestion_NoTally(g, idx, t) ==
    [g EXCEPT !.started = TRUE,
              !.question_index = idx,
              !.locked = FALSE,
              !.answered = {},
              !.question_start = t]

\* lines 68-69 and 77-80
OpenQuestion(g, idx, t) ==
    [g EXCEPT !.started = TRUE,
              !.question_index = idx,
              !.locked = FALSE,
              !.answered = {},
              !.answers_count = [o \in OptionIds(idx) |-> 0],
              !.question_start = t]

next_question(pin) ==
    IF games[pin] = 0
    THEN /\ sent' = {}
         /\ ret' = "404"
         /\ UNCHANGED <<games, rooms, conns, tasks, now, lock_log>>
    ELSE LET r   == games[pin]
             g   == rooms[r]
             idx == g.question_index + 1
         IN  /\ idx <= MaxIndex
             /\ Work < MaxWork
             /\ IF idx >= Len(QUESTIONS)
                THEN LET g1 == [g EXCEPT !.started = TRUE, !.question_index = idx]
                         b  == send_leaderboard(g1, conns, TRUE)
                     IN  /\ rooms' = [rooms EXCEPT ![r] = g1]
                         /\ sent' = b.sent
                         /\ ret' = (IF b.ok THEN "finished" ELSE "next_error")
                         /\ UNCHANGED tasks
                ELSE LET g1 == OpenQuestion(g, idx, now)
                         b  == [sent |-> Deliveries(g1, conns, AllRoles,
                                                    [Msg("question") EXCEPT !.q = idx]),
                                ok   |-> SendOk(g1, conns, AllRoles)]
                     IN  /\ \E i \in Instants : i >= now + QUESTION_TIME
                         /\ rooms' = [rooms EXCEPT ![r] = g1]
                         /\ sent' = b.sent
                         /\ ret' = (IF b.ok THEN "sent" ELSE "next_error")
                         /\ tasks' = IF b.ok
                                     THEN tasks \cup {[pin |-> pin, q_index |-> idx,
                                                       due |-> now + QUESTION_TIME,
                                                       origin |-> r]}
                                     ELSE tasks
             /\ UNCHANGED <<games, conns, now, lock_log>>

\* ---------------------------------------------------------- lock_question
lock_question(t) ==
    /\ t \in tasks
    /\ now >= t.due
    /\ tasks' = tasks \ {t}
    /\ LET r == games[t.pin]
       IN  IF r = 0 \/ rooms[r].question_index # t.q_index
           THEN /\ sent' = {}
                /\ ret' = "stale"
                /\ UNCHANGED <<rooms, lock_log>>
           ELSE LET g1 == [rooms[r] EXCEPT !.locked = TRUE]
                    m  == [Msg("lock") EXCEPT !.correct_id = QuestionAt(t.q_index).answer]
                    b1 == [sent |-> Deliveries(g1, conns, AllRoles, m),
                           ok   |-> SendOk(g1, conns, AllRoles)]
                    b2 == notify_question_end(g1, conns)
                IN  /\ rooms' = [rooms EXCEPT ![r] = g1]
                    /\ sent' = IF b1.ok THEN b1.sent \cup b2.sent ELSE b1.sent
                    /\ ret' = (IF b1.ok /\ b2.ok THEN "locked" ELSE "lock_error")
                    /\ lock_log' = IF b1.sent # {} THEN lock_log \cup {<<r, t.q_index>>}
                                   ELSE lock_log
    /\ UNCHANGED <<games, conns, now>>

\* -------------------------------------------------------------- player_ws
\* outcomes of a send_json that raises: Starlette raises WebSocketDisconnect
\* or RuntimeError depending on how the peer went away
SendErrors == {"WebSocketDisconnect", "RuntimeError"}

Handler(r, pin, pid, status) ==
    [room |-> r, pin |-> pin, player_id |-> pid, role |-> RoleOf(pid), status |-> status]

\* the score of a new entry without the lookup of the earlier one
PriorScore_Zero(g, pid) == 0

\* game["players"].get(player_id, {}).get("score", 0)
PriorScore(g, pid) ==
    IF PlayerPos(g, pid) = 0 THEN 0 ELSE g.players[PlayerPos(g, pid)].score

\* the connection attempt up to the first receive_json (lines 128-152)
player_ws_connect(pin, pid) ==
    IF games[pin] = 0
    THEN /\ sent' = {}
         /\ ret' = "close1008"
         /\ UNCHANGED <<games, rooms, conns, tasks, now, lock_log>>
    ELSE LET r     == games[pin]
             g     == rooms[r]
             c     == Len(conns) + 1
             pos   == PlayerPos(g, pid)
             entry == [id    |-> pid,
                       score |-> PriorScore(g, pid),
                       ws    |-> c,
                       role  |-> RoleOf(pid)]
             g1    == [g EXCEPT !.players = IF pos = 0 THEN Append(@, entry)
                                            ELSE [@ EXCEPT ![pos] = entry]]
             cs1   == Append(conns, Handler(r, pin, pid, "open"))
             b     == broadcast_players(g1, cs1)
         IN  /\ Len(conns) < MaxConns
             /\ Work < MaxWork
             /\ rooms' = [rooms EXCEPT ![r] = g1]
             /\ conns' = IF b.ok THEN cs1 ELSE [cs1 EXCEPT ![c].status = "closed"]
             /\ sent' = b.sent
             /\ ret' = (IF b.ok THEN "accepted" ELSE "connect_error")
             /\ UNCHANGED <<games, tasks, now, lock_log>>

\* the peer goes away; the handler has not noticed yet
client_drop(c) ==
    /\ c \in 1..Len(conns)
    /\ conns[c].status = "open"
    /\ Cardinality({d \in 1..Len(conns) : conns[d].status # "open"}) < MaxDown
    /\ conns' = [conns EXCEPT ![c].status = "stale"]
    /\ sent' = {}
    /\ ret' = "ok"
    /\ UNCHANGED <<games, rooms, tasks, now, lock_log>>

\* receive_json raises WebSocketDisconnect (lines 199-201)
player_ws_disconnect(c) ==
    /\ c \in 1..Len(conns)
    /\ conns[c].status = "stale"
    /\ LET h      == conns[c]
           g      == rooms[h.room]
           g1     == [g EXCEPT !.players[PlayerPos(g, h.player_id)].ws = NoWs]
           rooms1 == [rooms EXCEPT ![h.room] = g1]
           cs1    == [conns EXCEPT ![c].status = "closed"]
           b      == broadcast_players(rooms1[games[h.pin]], cs1)
       IN  /\ rooms' = rooms1
           /\ conns' = cs1
           /\ sent' = b.sent
           /\ ret' = (IF b.ok THEN "ok" ELSE "error")
    /\ UNCHANGED <<games, tasks, now, lock_log>>

\* Ignored without the test of the sender's role
Ignored_NoRoleTest(h, g, data) ==
    \/ data.type # "answer"
    \/ g.locked
    \/ h.player_id \in g.answered
    \/ data.option \notin DOMAIN COLOR_OPTION_MAP

\* Ignored without the test of game["locked"]
Ignored_NoLockTest(h, g, data) ==
    \/ h.role # "player"
    \/ data.type # "answer"
    \/ h.player_id \in g.answered
    \/ data.option \notin DOMAIN COLOR_OPTION_MAP

\* the tests of lines 159-172 that end one turn of the loop with `continue`
Ignored(h, g, data) ==
    \/ h.role # "player"
    \/ data.type # "answer"
    \/ g.locked
    \/ h.player_id \in g.answered
    \/ data.option \notin DOMAIN COLOR_OPTION_MAP

\* the result of one turn of the receive loop (lines 156-197) on connection c
\* reading data, with exc the exception a failing send raises: the heaps, the
\* deliveries, and "ignored", "counted" or the exception that ends the handler
ReceiveOutcome(c, data, exc) ==
    LET h   == conns[c]
        r   == h.room
        g   == rooms[r]
        pos == PlayerPos(g, h.player_id)
        closed == [conns EXCEPT ![c].status = "closed"]
        Out(rs, cs, msgs, st) == [rooms |-> rs, conns |-> cs, sent |-> msgs, ret |-> st]
    IN  IF Ignored(h, g, data)
        THEN Out(rooms, conns, {}, "ignored")
        ELSE LET selected_id == COLOR_OPTION_MAP[data.option] IN
             IF selected_id \notin DOMAIN g.answers_count
             THEN Out(rooms, closed, {}, "answer_KeyError")
             ELSE LET g1 == [g EXCEPT !.answers_count[selected_id] = @ + 1] IN
             IF ~ValidIndex(g.question_index)
             THEN Out([rooms EXCEPT ![r] = g1], closed, {}, "IndexError")
             ELSE LET correct_id    == QuestionAt(g.question_index).answer
                      correct_color == OPTION_COLOR_MAP[correct_id]
                      g2     == IF data.option = correct_color
                                THEN [g1 EXCEPT !.players[pos].score =
                                          @ + Score(now - g.question_start)]
                                ELSE g1
                      rooms2 == [rooms EXCEPT ![r] = g2]
                      b      == send_answer_stats(rooms2[games[h.pin]], conns)
                      \* except WebSocketDisconnect: ws = None, broadcast_players
                      g3     == [g2 EXCEPT !.players[pos].ws = NoWs]
                      rooms3 == [rooms EXCEPT ![r] = g3]
                      b3     == broadcast_players(rooms3[games[h.pin]], closed)
                  IN  IF b.ok THEN Out(rooms2, conns, b.sent, "counted")
                      ELSE IF exc = "WebSocketDisconnect"
                      THEN Out(rooms3, closed, b.sent \cup b3.sent, exc)
                      ELSE Out(rooms2, closed, b.sent, exc)

player_ws_receive(c, data, exc) ==
    /\ c \in 1..Len(conns)
    /\ conns[c].status = "open"
    /\ ~Ignored(conns[c], rooms[conns[c].room], data)
           => Total(rooms[conns[c].room].answers_count) < MaxAnswers
    /\ LET out == ReceiveOutcome(c, data, exc)
       IN  /\ rooms' = out.rooms
           /\ conns' = out.conns
           /\ sent' = out.sent
           /\ ret' = out.ret
    /\ UNCHANGED <<games, tasks, now, lock_log>>

\* ------------------------------------------- show_chart, show_leaderboard
show_chart(pin) ==
    /\ IF games[pin] = 0
       THEN /\ sent' = {}
            /\ ret' = "KeyError"
       ELSE LET g == rooms[games[pin]] IN
            /\ sent' = Deliveries(g, conns, {"SCREEN"}, Msg("show_chart"))
            /\ ret' = (IF SendOk(g, conns, {"SCREEN"}) THEN "ok" ELSE "error")
    /\ UNCHANGED <<games, rooms, conns, tasks, now, lock_log>>

show_leaderboard_api(pin) ==
    /\ IF games[pin] = 0
       THEN /\ sent' = {}
            /\ ret' = "KeyError"
       ELSE LET b == send_leaderboard(rooms[games[pin]], conns, FALSE) IN
            /\ sent' = b.sent
            /\ ret' = (IF b.ok THEN "ok" ELSE "error")
    /\ UNCHANGED <<games, rooms, conns, tasks, now, lock_log>>

\* ------------------------------------------------------------------ clock
Tick ==
    /\ now' \in {i \in Instants : i > now}
    /\ sent' = {}
    /\ ret' = "ok"
    /\ UNCHANGED <<games, rooms, conns, tasks, lock_log>>

\* ------------------------------------------------------------------- Next
\* inbound JSON explored: a mapped colour, an unmapped one, another type
Inbound ==
    {[type |-> "answer", option |-> "blue"],
     [type |-> "answer", option |-> "purple"],
     [type |-> "chat",   option |-> "blue"]}

\* uuid4 values and player ids are opaque to the code, so they are named in
\* the order they first appear: the first pin drawn is "P1", and "p2" joins
\* only where "p1" has joined some room before
DrawnPins == {p \in Pins : p = "P1" \/ games["P1"] # 0}

JoiningIds ==
    {p \in PlayerIds :
        p = "p2" => \E q \in 1..Len(rooms) : PlayerPos(rooms[q], "p1") # 0}

Next ==
    \/ \E pin \in DrawnPins : create_game(pin)
    \/ \E pin \in Pins : check_pin(pin)
    \/ \E pin \in Pins : next_question(pin)
    \/ \E t \in tasks : lock_question(t)
    \/ \E pin \in Pins, pid \in JoiningIds : player_ws_connect(pin, pid)
    \/ \E c \in 1..MaxConns : client_drop(c)
    \/ \E c \in 1..MaxConns : player_ws_disconnect(c)
    \/ \E c \in 1..MaxConns, data \in Inbound, exc \in SendErrors :
           player_ws_receive(c, data, exc)
    \/ \E pin \in Pins : show_chart(pin)
    \/ \E pin \in Pins : show_leaderboard_api(pin)
    \/ Tick

Spec == Init /\ [][Next]_vars


\* ======================================================================
\* next_question and lock_question in steps
\* ======================================================================
\* A coroutine gives up control at each await. Here a task is the position of
\* one coroutine of next_question or lock_question: kind "sleep" inside
\* asyncio.sleep, any other kind inside the loop that sends that message,
\* with `origin` the game dict the loop iterates and `pos` the dict position
\* it looks at next. Connections stay up and no answer arrives in this
\* specification, so a send does not raise and scores do not change.
Coroutine(kind, pin, q_index, due, g, pos) ==
    [kind |-> kind, pin |-> pin, q_index |-> q_index, due |-> due,
     origin |-> g, pos |-> pos]

\* the role test of the loop that sends each message
LoopRoles(kind) == IF kind = "question_end" THEN {"HOST"} ELSE AllRoles

LoopMsg(t) ==
    CASE t.kind = "question"     -> [Msg("question") EXCEPT !.q = t.q_index]
      [] t.kind = "lock"         ->
             [Msg("lock") EXCEPT !.correct_id = QuestionAt(t.q_index).answer]
      [] t.kind = "question_end" -> Msg("question_end")
      [] t.kind = "leaderboard"  ->
             [Msg("leaderboard") EXCEPT !.finished = TRUE,
                                        !.data = Leaderboard(rooms[t.origin])]

\* the next dict position at or after pos the loop sends to, 0 at its end
NextPos(g, roles, pos) ==
    LET S == {i \in Targets(g, roles) : i >= pos}
    IN  IF S = {} THEN 0 ELSE Min(S)

\* lines 64-80 (or 64-72 and 234-246): up to the first send_json
next_question_begin(pin) ==
    IF games[pin] = 0
    THEN /\ sent' = {}
         /\ ret' = "404"
         /\ UNCHANGED <<games, rooms, conns, tasks, now, lock_log>>
    ELSE LET r   == games[pin]
             g   == rooms[r]
             idx == g.question_index + 1
             fin == idx >= Len(QUESTIONS)
         IN  /\ idx <= MaxIndex
             /\ Work < MaxWork
             /\ rooms' = [rooms EXCEPT ![r] =
                             IF fin THEN [g EXCEPT !.started = TRUE, !.question_index = idx]
                             ELSE OpenQuestion(g, idx, now)]
             /\ tasks' = tasks \cup
                    {Coroutine(IF fin THEN "leaderboard" ELSE "question",
                               pin, idx, NoTime, r, 1)}
             /\ sent' = {}
             /\ ret' = "ok"
             /\ UNCHANGED <<games, conns, now, lock_log>>

\* one `await p["ws"].send_json(...)` of a loop
send_json_step(t) ==
    /\ t \in tasks
    /\ t.kind # "sleep"
    /\ NextPos(rooms[t.origin], LoopRoles(t.kind), t.pos) # 0
    /\ LET i == NextPos(rooms[t.origin], LoopRoles(t.kind), t.pos)
       IN  /\ sent' = {[to |-> rooms[t.origin].players[i].ws, msg |-> LoopMsg(t)]}
           /\ tasks' = (tasks \ {t}) \cup {[t EXCEPT !.pos = i + 1]}
    /\ ret' = "ok"
    /\ lock_log' = IF t.kind = "lock" THEN lock_log \cup {<<t.origin, t.q_index>>}
                   ELSE lock_log
    /\ UNCHANGED <<games, rooms, conns, now>>

\* what follows a loop that has run to its end: create_task and return (lines
\* 91-92), notify_question_end (line 113), or the return
loop_end(t) ==
    /\ t \in tasks
    /\ t.kind # "sleep"
    /\ NextPos(rooms[t.origin], LoopRoles(t.kind), t.pos) = 0
    /\ tasks' = (tasks \ {t}) \cup
           (CASE t.kind = "question" ->
                     {Coroutine("sleep", t.pin, t.q_index, now + QUESTION_TIME, t.origin, 0)}
              [] t.kind = "lock"     ->
                     {Coroutine("question_end", t.pin, t.q_index, t.due, games[t.pin], 1)}
              [] OTHER               -> {})
    /\ sent' = {}
    /\ ret' = (CASE t.kind = "question"    -> "sent"
                 [] t.kind = "leaderboard" -> "finished"
                 [] t.kind = "lock"        -> "ok"
                 [] OTHER                  -> "locked")
    /\ UNCHANGED <<games, rooms, conns, now, lock_log>>

\* lines 96-102: the sleep is over, the guard, and game["locked"] = True
lock_question_wake(t) ==
    /\ t \in tasks
    /\ t.kind = "sleep"
    /\ now >= t.due
    /\ LET r == games[t.pin]
       IN  IF r = 0 \/ rooms[r].question_index # t.q_index
           THEN /\ tasks' = tasks \ {t}
                /\ ret' = "stale"
                /\ UNCHANGED rooms
           ELSE /\ rooms' = [rooms EXCEPT ![r].locked = TRUE]
                /\ tasks' = (tasks \ {t}) \cup
                       {Coroutine("lock", t.pin, t.q_index, t.due, r, 1)}
                /\ ret' = "ok"
    /\ sent' = {}
    /\ UNCHANGED <<games, conns, now, lock_log>>

\* rooms get distinct pins here, and the roster is fixed while a loop iterates
\* it (a dict that changes size under iteration raises RuntimeError)
NextSteps ==
    \/ \E pin \in DrawnPins : games[pin] = 0 /\ create_game(pin)
    \/ \E pin \in Pins, pid \in JoiningIds :
           (\A t \in tasks : t.kind = "sleep") /\ player_ws_connect(pin, pid)
    \/ \E pin \in Pins : next_question_begin(pin)
    \/ \E t \in tasks : send_json_step(t)
    \/ \E t \in tasks : loop_end(t)
    \/ \E t \in tasks : lock_question_wake(t)
    \/ Tick

SpecSteps == Init /\ [][NextSteps]_vars

\* ======================================================================
\* the timer under fairness
\* ======================================================================
\* The event loop's clock advances and a task whose sleep is over is run:
\* weak fairness of Tick and of lock_question. Requests stay free to stop,
\* and rooms get distinct pins here.
NextLive ==
    \/ \E pin \in DrawnPins : games[pin] = 0 /\ create_game(pin)
    \/ \E pin \in Pins : next_question(pin)
    \/ \E t \in tasks : lock_question(t)
    \/ \E pin \in Pins, pid \in JoiningIds : player_ws_connect(pin, pid)
    \/ \E c \in 1..MaxConns : client_drop(c)
    \/ \E c \in 1..MaxConns : player_ws_disconnect(c)
    \/ Tick

SpecLive ==
    /\ Init
    /\ [][NextLive]_vars
    /\ WF_vars(Tick)
    /\ WF_vars(\E t \in tasks : lock_question(t))


\* ======================================================================
\* Properties
\* ======================================================================
RoomIds == 1..Len(rooms)
ConnIds == 1..Len(conns)

PlayersOf(g) == {i \in 1..Len(g.players) : g.players[i].role = "player"}

\* every delivery of the last handler that carries message type ty
SentOf(ty) == {d \in sent : d.msg.type = ty}

\* C1: on every advance of a registered room, currentQuestionIndex grows by
\* exactly 1 while it is below the bank length, and once it equals the bank
\* length it stays at that value.
C1_IndexStopsAtBankLength ==
    [][\A pin \in Pins :
          (games[pin] # 0 /\ next_question(pin)) =>
              LET old == rooms[games[pin]].question_index
                  new == rooms'[games[pin]].question_index
              IN  IF old < Len(QUESTIONS) THEN new = old + 1 ELSE new = old]_vars

\* C2: within one question each player contributes at most 1 to the tally, so
\* the counts of a room never add up to more than its player-role participants.
C2_OneAnswerPerPlayer ==
    \A r \in RoomIds :
        Total(rooms[r].answers_count) <= Cardinality(PlayersOf(rooms[r]))

\* C3: for any room and question index the lock message is emitted at most
\* once: a deadline callback that delivers a lock does so for a room and index
\* for which none was delivered before.
C3_LockAtMostOnce ==
    [][\A t \in tasks :
          (lock_question(t) /\ \E d \in sent' : d.msg.type = "lock") =>
              <<games[t.pin], t.q_index>> \notin lock_log]_vars

\* C3 (first part): a deadline callback that finds another index than its own
\* changes no room and sends nothing.
C3_StaleCallbackIsNoOp ==
    [][\A t \in tasks :
          (lock_question(t) /\ rooms[games[t.pin]].question_index # t.q_index) =>
              (rooms' = rooms /\ sent' = {} /\ lock_log' = lock_log)]_vars

\* C4: createRoom never returns a code that is already a key of the registry:
\* every room registered before the call is registered unchanged after it and
\* the number of registered rooms grows by exactly one.
C4_CreateNeverCollides ==
    [][\A pin \in Pins :
          create_game(pin) =>
              /\ games[pin] = 0
              /\ \A q \in Pins : games[q] # 0 =>
                     (games'[q] # 0 /\ rooms'[games'[q]] = rooms[games[q]])
              /\ Cardinality({q \in Pins : games'[q] # 0})
                     = Cardinality({q \in Pins : games[q] # 0}) + 1]_vars

\* C5: when advance opens a question, a send failure on one connection neither
\* stops the delivery to the other live connections, nor reaches the caller,
\* nor prevents the deadline callback from being scheduled.
C5_BroadcastSurvivesSendFailure ==
    [][\A pin \in Pins :
          (games[pin] # 0 /\ next_question(pin)
             /\ rooms'[games[pin]].question_index < Len(QUESTIONS)) =>
              LET r == games[pin]
                  g == rooms'[r]
              IN  /\ \A i \in 1..Len(g.players) :
                         (g.players[i].ws # NoWs /\ conns[g.players[i].ws].status = "open")
                             => \E d \in sent' : d.to = g.players[i].ws
                                                 /\ d.msg.type = "question"
                  /\ ret' = "sent"
                  /\ \E t \in tasks' : t.origin = r /\ t.q_index = g.question_index]_vars

\* C6: in every state where a room is finished (its index has reached the bank
\* length) its answer window is closed.
C6_FinishedRoomIsLocked ==
    \A r \in RoomIds :
        rooms[r].question_index >= Len(QUESTIONS) => rooms[r].locked

\* the cases C7 names: the sender is host or screen, the message is no answer,
\* the window is closed, or the label maps to no option of the current question
C7_RejectCase(c, data) ==
    LET h == conns[c]
        g == rooms[h.room]
    IN  \/ h.role \in {"HOST", "SCREEN"}
        \/ data.type # "answer"
        \/ g.locked
        \/ data.option \notin DOMAIN COLOR_OPTION_MAP
        \/ /\ 0 <= g.question_index /\ g.question_index < Len(QUESTIONS)
           /\ COLOR_OPTION_MAP[data.option] \notin OptionIds(g.question_index)

C8_LockReachesPlayersAndHost ==
    [][\A t \in tasks :
          (lock_question(t) /\ rooms[games[t.pin]].question_index = t.q_index) =>
              LET g == rooms'[games[t.pin]]
                  live(i) == g.players[i].ws # NoWs /\ conns[g.players[i].ws].status = "open"
              IN  /\ g.locked
                  /\ \A i \in 1..Len(g.players) :
                         (live(i) /\ g.players[i].role = "player") =>
                             \E d \in sent' :
                                 /\ d.to = g.players[i].ws
                                 /\ d.msg.type = "lock"
                                 /\ d.msg.correct_id = QuestionAt(t.q_index).answer
                  /\ \A i \in 1..Len(g.players) :
                         (live(i) /\ g.players[i].role = "HOST") =>
                             \E d \in sent' : d.to = g.players[i].ws
                                              /\ d.msg.type = "question_end"
                  /\ \A d \in sent' :
                         d.msg.type = "question_end" => conns[d.to].role = "HOST"]_vars

\* C9: a counted answer for the current question's correct option adds exactly
\* floor(BASE_SCORE * max(0, QUESTION_TIME - elapsed) / QUESTION_TIME) to the
\* sender's score (BASE_SCORE at elapsed 0, 0 from elapsed QUESTION_TIME on),
\* any other counted answer adds 0, and no other score changes.
C9_ScoreOfCountedAnswer ==
    \A c \in ConnIds, data \in Inbound, exc \in SendErrors :
        (/\ conns[c].status = "open"
         /\ ~Ignored(conns[c], rooms[conns[c].room], data)
         /\ 0 <= rooms[conns[c].room].question_index
         /\ rooms[conns[c].room].question_index < Len(QUESTIONS)) =>
            LET r       == conns[c].room
                g       == rooms[r]
                out     == ReceiveOutcome(c, data, exc)
                pos     == PlayerPos(g, conns[c].player_id)
                delta   == out.rooms[r].players[pos].score - g.players[pos].score
                elapsed == now - g.question_start
                rem     == IF elapsed >= QUESTION_TIME THEN 0 ELSE QUESTION_TIME - elapsed
                correct == COLOR_OPTION_MAP[data.option] = QuestionAt(g.question_index).answer
            IN  /\ correct => /\ delta * QUESTION_TIME <= BASE_SCORE * rem
                              /\ BASE_SCORE * rem < (delta + 1) * QUESTION_TIME
                /\ ~correct => delta = 0
                /\ (correct /\ elapsed = 0) => delta = BASE_SCORE
                /\ (correct /\ elapsed >= QUESTION_TIME) => delta = 0
                /\ \A q \in RoomIds : \A i \in 1..Len(rooms[q].players) :
                       (q # r \/ i # pos) =>
                           out.rooms[q].players[i].score = rooms[q].players[i].score

\* an answer was just counted and a player holds the score of a correct answer
\* given 10 time units into the window, floor(1000 * 5 / 15)
C9_Witness ==
    /\ ret = "counted"
    /\ \E r \in RoomIds : \E i \in PlayersOf(rooms[r]) :
           /\ rooms[r].players[i].score = 333
           /\ Total(rooms[r].answers_count) = 1

\* C10: every counted answer sends a stats message with the tally after the
\* increment to each connected host and screen of the room, and no stats
\* message ever reaches a player.
C10_StatsToHostAndScreen ==
    [][\A c \in ConnIds, data \in Inbound, exc \in SendErrors :
          (/\ player_ws_receive(c, data, exc)
           /\ ~Ignored(conns[c], rooms[conns[c].room], data)) =>
              LET g == rooms'[conns[c].room]
              IN  /\ \A i \in 1..Len(g.players) :
                         (/\ g.players[i].role \in {"HOST", "SCREEN"}
                          /\ g.players[i].ws # NoWs
                          /\ conns[g.players[i].ws].status = "open") =>
                             \E d \in sent' : /\ d.to = g.players[i].ws
                                              /\ d.msg.type = "stats"
                                              /\ d.msg.counts = g.answers_count
                  /\ \A d \in sent' :
                         d.msg.type = "stats" => conns[d.to].role # "player"]_vars

\* C10 (safety part): no stats message is delivered to a player.
C10_NoStatsToPlayers ==
    \A d \in SentOf("stats") : conns[d.to].role \in {"HOST", "SCREEN"}

\* C11: advance, chart request and leaderboard request with a code that is not
\* in the registry fail with the NotFound client error, send no message and
\* leave the registry and every room unchanged.
C11_UnknownCodeIsNotFound ==
    [][\A pin \in Pins :
          (/\ games[pin] = 0
           /\ (next_question(pin) \/ show_chart(pin) \/ show_leaderboard_api(pin))) =>
              /\ ret' = "404"
              /\ sent' = {}
              /\ games' = games
              /\ rooms' = rooms]_vars

\* C12: for a code that is not registered, check_pin answers not valid and a
\* connect attempt is closed with code 1008, and neither creates a room,
\* registers a participant or sends anything; for a registered code check_pin
\* answers valid together with the room's started flag.
C12_UnknownCodeRejected ==
    [][\A pin \in Pins :
          /\ (games[pin] = 0 /\ check_pin(pin)) =>
                 (ret' = "invalid" /\ sent' = {}
                    /\ games' = games /\ rooms' = rooms /\ conns' = conns)
          /\ (games[pin] = 0 /\ \E pid \in PlayerIds : player_ws_connect(pin, pid)) =>
                 (ret' = "close1008" /\ sent' = {}
                    /\ games' = games /\ rooms' = rooms /\ conns' = conns)
          /\ (games[pin] # 0 /\ check_pin(pin)) =>
                 /\ ret' = (IF rooms[games[pin]].started THEN "valid_started" ELSE "valid")
                 /\ games' = games /\ rooms' = rooms /\ conns' = conns]_vars

\* a connect attempt was just closed with 1008 while another code is
\* registered with a started room and a connected participant
C12_Witness ==
    /\ ret = "close1008"
    /\ sent = {}
    /\ \E r \in RoomIds : rooms[r].started /\ rooms[r].players # << >>

\* C13: a disconnect changes nothing of a room but the connection of the
\* handler's participant, which becomes absent; a connect with an id the room
\* already holds installs the new connection and keeps the score; no step
\* removes a participant or changes its id or role, and every player-role
\* participant, connected or not, is in the leaderboard with its score.
C13_DisconnectKeepsParticipant ==
    /\ [][/\ \A c \in ConnIds :
                player_ws_disconnect(c) =>
                    LET r   == conns[c].room
                        pos == PlayerPos(rooms[r], conns[c].player_id)
                    IN  rooms' = [rooms EXCEPT ![r].players[pos].ws = NoWs]
          /\ \A pin \in Pins, pid \in PlayerIds :
                (games[pin] # 0 /\ player_ws_connect(pin, pid)
                   /\ PlayerPos(rooms[games[pin]], pid) # 0) =>
                    LET r   == games[pin]
                        pos == PlayerPos(rooms[r], pid)
                    IN  /\ rooms'[r].players[pos].ws = Len(conns')
                        /\ rooms' = [rooms EXCEPT ![r].players[pos].ws = Len(conns')]
          /\ \A r \in RoomIds : \A i \in 1..Len(rooms[r].players) :
                /\ i <= Len(rooms'[r].players)
                /\ rooms'[r].players[i].id = rooms[r].players[i].id
                /\ rooms'[r].players[i].role = rooms[r].players[i].role
         ]_vars
    /\ [](\A r \in RoomIds : \A i \in PlayersOf(rooms[r]) :
             \E k \in 1..Len(Leaderboard(rooms[r])) :
                 Leaderboard(rooms[r])[k] = [name  |-> rooms[r].players[i].id,
                                             score |-> rooms[r].players[i].score])

\* a player that scored, disconnected and connected again: its entry holds
\* the second connection and the score it had, and the first one is closed
C13_Witness ==
    \E r \in RoomIds : \E i \in PlayersOf(rooms[r]) :
        /\ rooms[r].players[i].score > 0
        /\ rooms[r].players[i].ws # NoWs
        /\ \E c \in ConnIds :
               /\ c < rooms[r].players[i].ws
               /\ conns[c].room = r
               /\ conns[c].player_id = rooms[r].players[i].id
               /\ conns[c].status = "closed"

\* a leaderboard payload lists player-role ids only, by descending score
C14_Ranked(data) ==
    /\ \A k \in 1..Len(data) : RoleOf(data[k].name) = "player"
    /\ \A k \in 1..Len(data) : \A l \in 1..Len(data) :
           k < l => data[k].score >= data[l].score

\* C14: a leaderboard lists player-role participants only, by descending
\* score; on a leaderboard request every connected host and screen receives
\* the list and every connected player the waiting placeholder; on the
\* finishing advance every connected participant receives the list with
\* finished = true.
C14_LeaderboardDelivery ==
    [][\A pin \in Pins :
          games[pin] # 0 =>
              LET g        == rooms'[games[pin]]
                  live(i)  == /\ g.players[i].ws # NoWs
                              /\ conns[g.players[i].ws].status = "open"
                  full(fin) == [Msg("leaderboard") EXCEPT !.finished = fin,
                                                          !.data = Leaderboard(g)]
                  gets(i, m) == \E d \in sent' : d.to = g.players[i].ws /\ d.msg = m
              IN  /\ show_leaderboard_api(pin) =>
                         /\ C14_Ranked(Leaderboard(g))
                         /\ \A i \in 1..Len(g.players) : live(i) =>
                                IF g.players[i].role \in {"HOST", "SCREEN"}
                                THEN gets(i, full(FALSE))
                                ELSE gets(i, Msg("wait")) /\ ~gets(i, full(FALSE))
                  /\ (next_question(pin) /\ g.question_index >= Len(QUESTIONS)) =>
                         /\ C14_Ranked(Leaderboard(g))
                         /\ \A i \in 1..Len(g.players) : live(i) => gets(i, full(TRUE))
      ]_vars

\* C14 (content and audience): every leaderboard message delivered is ranked
\* and lists players only, and one that is not final reaches no player.
C14_RankedAndAudience ==
    \A d \in SentOf("leaderboard") :
        /\ C14_Ranked(d.msg.data)
        /\ ~d.msg.finished => conns[d.to].role \in {"HOST", "SCREEN"}

\* C15: in every state every participant's score is a non-negative integer
\* and a host's or screen's score is 0, and no step of any handler lowers the
\* score of a participant.
C15_ScoresOnlyGrow ==
    /\ [](\A r \in RoomIds : \A i \in 1..Len(rooms[r].players) :
             /\ rooms[r].players[i].score \in Nat
             /\ rooms[r].players[i].role \in {"HOST", "SCREEN"}
                    => rooms[r].players[i].score = 0)
    /\ [][\A r \in RoomIds : \A i \in 1..Len(rooms[r].players) :
             rooms'[r].players[i].score >= rooms[r].players[i].score]_vars

\* an answer was just counted in a room that holds a player with a positive
\* score next to a host or screen
C15_Witness ==
    /\ ret = "counted"
    /\ \E r \in RoomIds :
           /\ \E i \in PlayersOf(rooms[r]) : rooms[r].players[i].score > 0
           /\ \E i \in 1..Len(rooms[r].players) :
                  rooms[r].players[i].role \in {"HOST", "SCREEN"}

\* C16: with each send a step of its own, the deadline callback for question k
\* delivers its lock and its question_end only while k is still the room's
\* current question: none of them is delivered after an advance has opened
\* question k+1.
C16_NoCallbackEffectAfterNextOpens ==
    [][\A t \in tasks :
          (t.kind \in {"lock", "question_end"} /\ send_json_step(t)) =>
              rooms[t.origin].question_index = t.q_index]_vars

\* C17: under fairness of the timer a window opened for question k does not
\* stay open forever: eventually the room is locked or a later advance has
\* opened question k+1.
C17_WindowEventuallyCloses ==
    \A r \in 1..MaxRooms : \A k \in 0..(Len(QUESTIONS) - 1) :
        (r \in RoomIds /\ rooms[r].question_index = k /\ ~rooms[r].locked)
            ~> (/\ r \in RoomIds
                /\ \/ rooms[r].locked
                   \/ rooms[r].question_index = k + 1 /\ k + 1 < Len(QUESTIONS))

\* C18: in every state a room with a current question has a tally whose keys
\* are exactly that question's option ids; an advance that opens a question
\* leaves every count at 0 and nobody recorded as having answered; and no
\* other step changes the key set of a tally.
C18_TallyKeysAreOptionIds ==
    /\ [](\A r \in RoomIds :
             (0 <= rooms[r].question_index /\ rooms[r].question_index < Len(QUESTIONS))
                 => DOMAIN rooms[r].answers_count = OptionIds(rooms[r].question_index))
    /\ [][\A r \in RoomIds :
             LET old == rooms[r]
                 new == rooms'[r]
                 opened == /\ new.question_index = old.question_index + 1
                           /\ new.question_index < Len(QUESTIONS)
             IN  /\ opened =>
                        /\ new.answers_count = [o \in OptionIds(new.question_index) |-> 0]
                        /\ new.answered = {}
                 /\ DOMAIN new.answers_count # DOMAIN old.answers_count => opened]_vars

\* the second question was just opened in a room where a player had scored on
\* the first: the tally is back at 0 for every option
C18_Witness ==
    /\ ret = "sent"
    /\ \E r \in RoomIds :
           /\ rooms[r].question_index = 1
           /\ Total(rooms[r].answers_count) = 0
           /\ DOMAIN rooms[r].answers_count = OptionIds(1)
           /\ \E i \in PlayersOf(rooms[r]) : rooms[r].players[i].score > 0

\* C19: in every state and for every room with a current question, the counts
\* of the tally add up to the number of ids recorded as having answered, these
\* ids are player-role participants of the room, and the sum does not exceed
\* the number of player-role participants.
C19_TallyMatchesAnswered ==
    \A r \in RoomIds :
        (0 <= rooms[r].question_index /\ rooms[r].question_index < Len(QUESTIONS)) =>
            /\ Total(rooms[r].answers_count) = Cardinality(rooms[r].answered)
            /\ \A id \in rooms[r].answered :
                   \E i \in PlayersOf(rooms[r]) : rooms[r].players[i].id = id
            /\ Total(rooms[r].answers_count) <= Cardinality(PlayersOf(rooms[r]))

\* the connections a handler still serves for participant pid of room r
C20_Serving(r, pid) ==
    {c \in ConnIds : /\ conns[c].room = r
                     /\ conns[c].player_id = pid
                     /\ conns[c].status = "open"}

\* C20: a participant whose most recent connection is live is recorded with
\* that connection: the disconnect of an earlier connection of the same id
\* does not mark the participant absent.
C20_NewerConnectionStaysStored ==
    \A r \in RoomIds : \A i \in 1..Len(rooms[r].players) :
        LET pid    == rooms[r].players[i].id
            all    == {c \in ConnIds : conns[c].room = r /\ conns[c].player_id = pid}
            newest == CHOOSE c \in all : \A d \in all : d <= c
        IN  newest \in C20_Serving(r, pid) => rooms[r].players[i].ws = newest

====
